---- MODULE Spec2Model ----
(***************************************************************************)
(* uvw::SignalHandle (src/src/uvw/signal.hpp): a signal watcher built on   *)
(* the generic Handle / Resource / Emitter base of uvw and on libuv's      *)
(* uv_signal_t.                                                            *)
(*                                                                         *)
(* signal.hpp is the only file of the repository at hand.  The base        *)
(* classes (handle.hpp, event.hpp, util.hpp: initialize, invoke, get,      *)
(* publish, the listener registry, close) are modelled from the design     *)
(* document; the libuv entry points called by signal.hpp                   *)
(* (uv_signal_init, uv_signal_start, uv_signal_stop) are modelled as       *)
(* libuv documents and implements them.                                    *)
(*                                                                         *)
(* Everything runs on the one dispatch thread, so every operation and      *)
(* every native callback (listeners included) is one atomic step.          *)
(***************************************************************************)
EXTENDS Integers, Sequences, FiniteSets, TLC

\* ------------------------------------------------------------ bounds
\* Largest signal identifier a caller passes to start (0 is passed too:
\* libuv rejects it).
MaxSig == 2
\* Subscriptions ever made on the handle of the one-handle specifications.
MaxListeners == 3
\* Subscriptions ever made on each handle of the two-handle specification and
\* of the specification with a harness.
MaxListenersPair == 1

Handles == {"A", "B"}
NULL == "null"
\* The identifiers the operating system lets a process watch.
Signals == 1..MaxSig
\* An identifier sigaction refuses (SIGKILL, SIGSTOP, a number out of range).
BadSig == MaxSig + 1
\* What callers pass to start.
SigArgs == 0..BadSig
\* What a listener body does when it is invoked.
Acts == {"nop", "unsubNext", "unsubSelf", "stop"}
\* Listener bodies among which one raises.
FailActs == {"nop", "throw", "stop"}

VARIABLES
    st,         \* st[h]: "none" (not created), "uninit", "init", "closed"
    native,     \* native[h]: the uv_signal_t slot owned by handle h
    listeners,  \* listeners[h]: the SignalEvent listeners of h, in subscription order
    nextTok,    \* nextTok[h]: the next subscription token of h
    crashed,    \* the process died (undefined behaviour took its worst outcome)
    last        \* the last operation and what its caller could observe

vars == <<st, native, listeners, nextTok, crashed, last>>

\* ------------------------------------------------------------ native layer
\* The slot before uv_signal_init and after release: nothing in it is valid.
NoResource == [alloc |-> FALSE, data |-> NULL, signum |-> 0, active |-> FALSE]

\* uv_signal_init(loop, handle): binds the watcher to the loop, signum = 0.
\* ok = FALSE is the loop failing to set up its signal pipe.
uv_signal_init(h, ok) ==
    IF ok
    THEN [status |-> 0,
          nat |-> [alloc |-> TRUE, data |-> NULL, signum |-> 0, active |-> FALSE]]
    ELSE [status |-> 0 - 24, nat |-> NoResource]

\* uv_signal_stop(handle): a no-op on a watcher that is not started; otherwise
\* unregisters it and resets handle->signum to 0.  Always returns 0.
uv_signal_stop(nat) ==
    IF nat.signum = 0
    THEN [status |-> 0, nat |-> nat]
    ELSE [status |-> 0, nat |-> [nat EXCEPT !.signum = 0, !.active = FALSE]]

\* uv_signal_start(handle, cb, signum): UV_EINVAL for signum 0; only swaps the
\* callback when signum is already the one watched; otherwise stops the
\* watcher when it is started, and then registers it for signum, or returns
\* the error of sigaction when signum is one it refuses.
uv_signal_start(nat, signum) ==
    IF signum = 0 THEN [status |-> 0 - 22, nat |-> nat]
    ELSE IF signum = nat.signum THEN [status |-> 0, nat |-> nat]
    ELSE IF signum \notin Signals
    THEN [status |-> 0 - 22, nat |-> uv_signal_stop(nat).nat]
    ELSE [status |-> 0,
          nat |-> [uv_signal_stop(nat).nat EXCEPT !.signum = signum, !.active = TRUE]]

\* ------------------------------------------------------------ generic base
\* Handle::invoke: performs the native call and turns a non-zero status into a
\* reported error.
invoke(res) ==
    [nat |-> res.nat, status |-> res.status,
     err |-> IF res.status # 0 THEN "native" ELSE "none",
     code |-> res.status]

\* Resource::get: the native resource slot of the handle.
get(nat) == nat

\* ------------------------------------------------------------ SignalHandle
\* start that keeps the identifier of a watcher that is already armed.
startKeepsArmed(nat, signum) ==
    invoke(uv_signal_start(get(nat), IF nat.active THEN nat.signum ELSE signum))

\* start that calls the native entry point itself and drops its status.
startUnchecked(nat, signum) ==
    LET r == uv_signal_start(get(nat), signum) IN
    [nat |-> r.nat, status |-> r.status, err |-> "none", code |-> 0]

\* SignalHandle::start(signum)
start(nat, signum) == invoke(uv_signal_start(get(nat), signum))

\* stop that calls the arming entry point with the watched identifier.
stopRearms(nat) == invoke(uv_signal_start(get(nat), get(nat).signum))

\* stop that never reaches the native call.
stopForgets(nat) == invoke([status |-> 0, nat |-> get(nat)])

\* SignalHandle::stop()
stop(nat) == invoke(uv_signal_stop(get(nat)))

\* signal() that tells whether a signal is watched, not which.
signalIsArmed(nat) == IF get(nat).active THEN 1 ELSE 0

\* SignalHandle::signal()
signal(nat) == get(nat).signum

\* The lifecycle state of the design document, read off the handle.  The code
\* keeps nothing that tells INITIALIZED from STOPPED: both are the allocated,
\* disarmed watcher, named STOPPED here.
Lifecycle(h) ==
    CASE st[h] = "none" -> "NONE"
      [] st[h] = "uninit" -> "UNINITIALIZED"
      [] st[h] = "closed" -> "CLOSED"
      [] OTHER -> IF native[h].active THEN "ACTIVE" ELSE "STOPPED"

\* op(arg) on handle h; pre, presig: the lifecycle state and the armed
\* identifier the call found; ret, err: what it returned and reported;
\* status, code: the status of the native call it made and the status its
\* error report carries; touched: it reached into a slot that holds no
\* resource; pubs: the events it published, each with the listeners it
\* invoked, in order, and the listeners whose failure was reported; again: the
\* call just before it was the same operation on the same handle.
NoCall == [op |-> "none", h |-> NULL, arg |-> 0, pre |-> "NONE", presig |-> 0,
           ret |-> 0, err |-> "none", status |-> 0, code |-> 0,
           touched |-> FALSE, pubs |-> <<>>, again |-> FALSE]

Call(op, h, arg) ==
    [NoCall EXCEPT !.op = op, !.h = h, !.arg = arg, !.pre = Lifecycle(h),
                   !.presig = native[h].signum,
                   !.again = (last.op = op /\ last.h = h)]

\* The result r of an invoke, as the caller of op(arg) on h sees it.
Invoked(op, h, arg, r) ==
    [Call(op, h, arg) EXCEPT
        !.ret = r.status, !.status = r.status, !.err = r.err, !.code = r.code]

\* The outcomes of a native call or a read on a slot that holds no resource
\* (never initialised, or released): the process dies, the call returns an
\* error status, or it returns as if nothing were wrong.
UBOutcomes == {"crash", "error", "silent"}

\* Handle::initialize(&uv_signal_init): refuses a handle that is initialised
\* or closed; otherwise runs the native initialiser and, when that succeeds,
\* installs the back-pointer with the allocation.
initialize(h, ok) ==
    IF st[h] # "uninit"
    THEN [done |-> FALSE, err |-> "usage", status |-> 0, code |-> 0,
          nat |-> native[h]]
    ELSE LET r == uv_signal_init(h, ok) IN
         IF r.status # 0
         THEN [done |-> FALSE, err |-> "native", status |-> r.status,
               code |-> r.status, nat |-> native[h]]
         ELSE [done |-> TRUE, err |-> "none", status |-> 0, code |-> 0,
               nat |-> [r.nat EXCEPT !.data = h]]

\* init that calls the native initialiser itself, past the base's guard.
initUnguarded(h, ok) ==
    LET r == uv_signal_init(h, ok) IN
    IF r.status # 0
    THEN [done |-> FALSE, err |-> "native", status |-> r.status,
          code |-> r.status, nat |-> native[h]]
    ELSE [done |-> TRUE, err |-> "none", status |-> 0, code |-> 0,
          nat |-> [r.nat EXCEPT !.data = h]]

\* init that calls the native initialiser itself on a fresh handle and so
\* leaves the back-pointer out.
initNoBackPointer(h, ok) ==
    LET r == uv_signal_init(h, ok) IN
    IF st[h] # "uninit"
    THEN [done |-> FALSE, err |-> "usage", status |-> 0, code |-> 0,
          nat |-> native[h]]
    ELSE IF r.status # 0
    THEN [done |-> FALSE, err |-> "native", status |-> r.status,
          code |-> r.status, nat |-> native[h]]
    ELSE [done |-> TRUE, err |-> "none", status |-> 0, code |-> 0, nat |-> r.nat]

\* SignalHandle::init()
init(h, ok) == initialize(h, ok)

\* ------------------------------------------------------------ listener registry
Toks(reg) == {reg[i].tok : i \in 1..Len(reg)}

\* Emitter: unsubscribe(token) removes that listener when it is still there.
unsubscribe(reg, tok) == SelectSeq(reg, LAMBDA l : l.tok # tok)

\* Emitter: subscribe(listener) appends.
subscribe(reg, tok, act) == Append(reg, [tok |-> tok, act |-> act])

\* The body of listener l running inside a publish of its handle: it may
\* unsubscribe the listener subscribed after it or itself, call stop on the
\* handle, or raise.
RunListener(l, c) ==
    CASE l.act = "unsubNext" -> [c EXCEPT !.reg = unsubscribe(@, l.tok + 1)]
      [] l.act = "unsubSelf" -> [c EXCEPT !.reg = unsubscribe(@, l.tok)]
      [] l.act = "stop" -> [c EXCEPT !.nat = stop(@).nat]
      [] l.act = "throw" -> [c EXCEPT !.thrown = Append(@, l.tok)]
      [] OTHER -> c

\* Emitter::publish walks the listeners subscribed when the publish began, in
\* subscription order, and skips one that was unsubscribed in the meantime.  A
\* listener that raises is noted for the error channel and the walk goes on.
RECURSIVE Dispatch(_, _, _, _)
Dispatch(snap, i, c, log) ==
    IF i > Len(snap) THEN [c |-> c, log |-> log]
    ELSE IF snap[i].tok \notin Toks(c.reg) THEN Dispatch(snap, i + 1, c, log)
    ELSE Dispatch(snap, i + 1, RunListener(snap[i], c), Append(log, snap[i].tok))

\* The reverse of a sequence.
Reverse(q) == [i \in 1..Len(q) |-> q[Len(q) + 1 - i]]

\* publish that runs the most recently subscribed listener first.
publishLifo(c, ev) ==
    LET d == Dispatch(Reverse(c.reg), 1, c, <<>>) IN
    [d.c EXCEPT !.pubs = Append(@, [to |-> c.owner, payload |-> ev.signum,
                                    log |-> d.log, reported |-> d.c.thrown]),
                !.thrown = <<>>]

\* publish that runs the listeners of its snapshot without looking whether
\* they are still subscribed.
RECURSIVE DispatchSnapshot(_, _, _, _)
DispatchSnapshot(snap, i, c, log) ==
    IF i > Len(snap) THEN [c |-> c, log |-> log]
    ELSE DispatchSnapshot(snap, i + 1, RunListener(snap[i], c),
                          Append(log, snap[i].tok))

publishSnapshot(c, ev) ==
    LET d == DispatchSnapshot(c.reg, 1, c, <<>>) IN
    [d.c EXCEPT !.pubs = Append(@, [to |-> c.owner, payload |-> ev.signum,
                                    log |-> d.log, reported |-> d.c.thrown]),
                !.thrown = <<>>]

\* publish that lets the first failure of a listener end the walk.
RECURSIVE DispatchAborts(_, _, _, _)
DispatchAborts(snap, i, c, log) ==
    IF i > Len(snap) \/ c.thrown # <<>> THEN [c |-> c, log |-> log]
    ELSE IF snap[i].tok \notin Toks(c.reg) THEN DispatchAborts(snap, i + 1, c, log)
    ELSE DispatchAborts(snap, i + 1, RunListener(snap[i], c),
                        Append(log, snap[i].tok))

publishAborts(c, ev) ==
    LET d == DispatchAborts(c.reg, 1, c, <<>>) IN
    [d.c EXCEPT !.pubs = Append(@, [to |-> c.owner, payload |-> ev.signum,
                                    log |-> d.log, reported |-> d.c.thrown]),
                !.thrown = <<>>]

\* Emitter::publish(event) on the handle of context c.
publish(c, ev) ==
    LET d == Dispatch(c.reg, 1, c, <<>>) IN
    [d.c EXCEPT !.pubs = Append(@, [to |-> c.owner, payload |-> ev.signum,
                                    log |-> d.log, reported |-> d.c.thrown]),
                !.thrown = <<>>]

\* SignalEvent{sig}
SignalEvent(sig) == [signum |-> sig]

\* The handle a callback works on.
Ctx(o) == [owner |-> o, nat |-> native[o], reg |-> listeners[o], pubs |-> <<>>,
           thrown |-> <<>>]

\* A bridge that builds the event without the identifier it was given.
startCallbackNoPayload(r, signum) ==
    publish(Ctx(native[r].data), SignalEvent(0))

\* A bridge that finds the owner in a table keyed by the identifier instead of
\* through the back-pointer.
startCallbackBySignum(r, signum) ==
    publish(Ctx(CHOOSE h \in Handles : native[h].active /\ native[h].signum = signum),
            SignalEvent(signum))

\* A bridge that disarms the watcher once it has published (a one-shot watch).
startCallbackDisarms(r, signum) ==
    LET c == publish(Ctx(native[r].data), SignalEvent(signum)) IN
    [c EXCEPT !.nat = stop(@).nat]

\* A bridge that publishes the event twice.
startCallbackTwice(r, signum) ==
    publish(publish(Ctx(native[r].data), SignalEvent(signum)), SignalEvent(signum))

\* A bridge that builds the event from the identifier the handle watches
\* instead of the one it was given.
startCallbackReadsHandle(r, signum) ==
    publish(Ctx(native[r].data), SignalEvent(signal(native[native[r].data])))

\* SignalHandle::startCallback(handle, signum): the owner is the slot's
\* back-pointer; one SignalEvent carrying signum is published on it.
startCallback(r, signum) == publish(Ctx(native[r].data), SignalEvent(signum))

Init ==
    /\ st = [h \in Handles |-> "none"]
    /\ native = [h \in Handles |-> NoResource]
    /\ listeners = [h \in Handles |-> <<>>]
    /\ nextTok = [h \in Handles |-> 1]
    /\ crashed = FALSE
    /\ last = NoCall

\* SignalHandle::create(loop)
Create(h) ==
    /\ ~crashed
    /\ st[h] = "none"
    /\ st' = [st EXCEPT ![h] = "uninit"]
    /\ last' = Call("create", h, 0)
    /\ UNCHANGED <<native, listeners, nextTok, crashed>>

\* h.init()
InitOp(h, ok) ==
    /\ ~crashed
    /\ st[h] # "none"
    /\ LET r == init(h, ok) IN
       /\ st' = [st EXCEPT ![h] = IF r.done THEN "init" ELSE @]
       /\ native' = [native EXCEPT ![h] = r.nat]
       /\ last' = [Call("init", h, 0) EXCEPT !.ret = IF r.done THEN 1 ELSE 0,
                                              !.err = r.err, !.status = r.status,
                                              !.code = r.code]
    /\ UNCHANGED <<listeners, nextTok, crashed>>

\* A domain operation that reaches a slot holding no resource.
Misuse(op, h, arg, out, garbage) ==
    /\ crashed' = (out = "crash")
    /\ last' = [Call(op, h, arg) EXCEPT !.touched = TRUE, !.ret = garbage,
                                        !.err = IF out = "error" THEN "native" ELSE "none"]
    /\ UNCHANGED <<st, native, listeners, nextTok>>

\* h.start(signum)
Start(h, signum) ==
    /\ ~crashed
    /\ st[h] # "none"
    /\ IF native[h].alloc
       THEN LET r == start(native[h], signum) IN
            /\ native' = [native EXCEPT ![h] = r.nat]
            /\ last' = Invoked("start", h, signum, r)
            /\ UNCHANGED <<st, listeners, nextTok, crashed>>
       ELSE \E out \in UBOutcomes : Misuse("start", h, signum, out, 0)

\* h.stop()
Stop(h) ==
    /\ ~crashed
    /\ st[h] # "none"
    /\ IF native[h].alloc
       THEN LET r == stop(native[h]) IN
            /\ native' = [native EXCEPT ![h] = r.nat]
            /\ last' = Invoked("stop", h, 0, r)
            /\ UNCHANGED <<st, listeners, nextTok, crashed>>
       ELSE \E out \in UBOutcomes : Misuse("stop", h, 0, out, 0)

\* h.signal(): noexcept and int-valued, so it has no way to report anything;
\* on a slot holding no resource it reads whatever is there.
Signal(h) ==
    /\ ~crashed
    /\ st[h] # "none"
    /\ IF native[h].alloc
       THEN /\ last' = [Call("signal", h, 0) EXCEPT !.ret = signal(native[h])]
            /\ UNCHANGED <<st, native, listeners, nextTok, crashed>>
       ELSE \E out \in {"crash", "silent"}, garbage \in SigArgs :
                Misuse("signal", h, 0, out, IF out = "crash" THEN 0 ELSE garbage)

\* Handle::close(): disarms the watcher, releases the native resource and
\* clears the back-pointer; refused on a closed handle.
Close(h) ==
    /\ ~crashed
    /\ st[h] # "none"
    /\ IF st[h] = "closed"
       THEN /\ last' = [Call("close", h, 0) EXCEPT !.err = "usage"]
            /\ UNCHANGED <<st, native>>
       ELSE /\ st' = [st EXCEPT ![h] = "closed"]
            /\ native' = [native EXCEPT ![h] = NoResource]
            /\ last' = Call("close", h, 0)
    /\ UNCHANGED <<listeners, nextTok, crashed>>

\* h.on<SignalEvent>(listener)
Subscribe(h, act, cap) ==
    /\ ~crashed
    /\ st[h] # "none"
    /\ nextTok[h] <= cap
    /\ listeners' = [listeners EXCEPT ![h] = subscribe(@, nextTok[h], act)]
    /\ nextTok' = [nextTok EXCEPT ![h] = @ + 1]
    /\ last' = [Call("subscribe", h, 0) EXCEPT !.ret = nextTok[h]]
    /\ UNCHANGED <<st, native, crashed>>

\* h.erase(connection), from outside a publish
Unsubscribe(h, tok) ==
    /\ ~crashed
    /\ st[h] # "none"
    /\ tok < nextTok[h]
    /\ listeners' = [listeners EXCEPT ![h] = unsubscribe(@, tok)]
    /\ last' = Call("unsubscribe", h, tok)
    /\ UNCHANGED <<st, native, nextTok, crashed>>

\* The callback on slot r with identifier n, the back-pointer being valid.
Callback(op, r, n) ==
    LET c == startCallback(r, n) IN
    /\ native' = [native EXCEPT ![c.owner] = c.nat]
    /\ listeners' = [listeners EXCEPT ![c.owner] = c.reg]
    /\ last' = [Call(op, r, n) EXCEPT !.pubs = c.pubs]
    /\ UNCHANGED <<st, nextTok, crashed>>

\* The engine's dispatch step (uv__signal_event): the watched signal occurred,
\* and the engine calls the registered callback of a started watcher with the
\* identifier it watches.
EngineDispatch(r) ==
    /\ ~crashed
    /\ st[r] = "init"
    /\ native[r].active
    /\ Callback("callback", r, native[r].signum)

\* A test harness calling the bridge by hand with the slot of handle r and an
\* identifier of its choice, whatever the state of r.  On a slot whose
\* back-pointer is cleared the bridge dereferences a null owner: the process
\* dies, or the call goes through on the handle that owned the slot.
SimulatedCallback(r, n) ==
    /\ ~crashed
    /\ st[r] \in {"init", "closed"}
    /\ IF native[r].data \in Handles
       THEN Callback("simulated", r, n)
       ELSE \E out \in {"crash", "stale"} :
              /\ crashed' = (out = "crash")
              /\ last' = [Call("simulated", r, n) EXCEPT
                            !.touched = TRUE,
                            !.pubs = IF out = "crash" THEN <<>>
                                     ELSE publish(Ctx(r), SignalEvent(n)).pubs]
              /\ listeners' = [listeners EXCEPT ![r] =
                                 IF out = "crash" THEN @
                                 ELSE publish(Ctx(r), SignalEvent(n)).reg]
              /\ UNCHANGED <<st, native, nextTok>>

\* ------------------------------------------------------------ specifications
\* Every operation of the application and the engine on the handles HS, with at
\* most cap subscriptions per handle, of listeners whose bodies are in acts.
Ops(HS, cap, acts) ==
    \/ \E h \in HS : Create(h)
    \/ \E h \in HS, ok \in BOOLEAN : InitOp(h, ok)
    \/ \E h \in HS, s \in SigArgs : Start(h, s)
    \/ \E h \in HS : Stop(h)
    \/ \E h \in HS : Signal(h)
    \/ \E h \in HS : Close(h)
    \/ \E h \in HS, a \in acts : Subscribe(h, a, cap)
    \/ \E h \in HS, t \in 1..cap : Unsubscribe(h, t)
    \/ \E h \in HS : EngineDispatch(h)

\* One handle and its listeners.
Next == Ops({"A"}, MaxListeners, Acts)

\* One handle, and a harness that also calls the bridge by hand.
NextSim ==
    \/ Ops({"A"}, MaxListenersPair, Acts)
    \/ \E n \in Signals : SimulatedCallback("A", n)

\* Two handles on one loop, each with listeners that only take the event.
NextPair == Ops(Handles, MaxListenersPair, {"nop"})

\* One handle and listeners of which some raise.
NextFail == Ops({"A"}, MaxListeners, FailActs)

Spec == Init /\ [][Next]_vars

SpecFail == Init /\ [][NextFail]_vars

SpecSim == Init /\ [][NextSim]_vars

SpecPair == Init /\ [][NextPair]_vars
\* ------------------------------------------------------------ properties
\* The tokens of a registry, in subscription order.
TokSeq(reg) == [i \in 1..Len(reg) |-> reg[i].tok]

\* How often token t occurs in the sequence of tokens q.
Count(t, q) == Cardinality({i \in 1..Len(q) : q[i] = t})

\* The last operation was a domain operation on a handle that is initialised
\* and not closed.
OnLive(op) == last.op = op /\ last.pre \in {"STOPPED", "ACTIVE"}

\* C1: a domain operation (start, stop, signal) on a handle that is
\* UNINITIALIZED or CLOSED reports a usage error and reaches into no slot
\* that holds no resource.
C1_UsageErrorOutsideLifetime ==
    (last.op \in {"start", "stop", "signal"} /\ last.pre \in {"UNINITIALIZED", "CLOSED"})
        => (last.err = "usage" /\ ~last.touched /\ ~crashed)

\* C2: init on a handle that is already initialised returns false with a usage
\* error and changes neither the native resource (allocation, back-pointer,
\* armed identifier) nor the lifecycle state.
C2_SecondInitRefused ==
    [][(last'.op = "init" /\ st[last'.h] = "init")
         => (last'.ret = 0 /\ last'.err = "usage" /\ native' = native /\ st' = st)]_vars

C2_Witness ==
    /\ last.op = "init" /\ last.again /\ last.pre = "ACTIVE"
    /\ last.ret = 0 /\ native[last.h].alloc

C4_StopIdempotent ==
    [][\A h \in Handles :
         (last'.op = "stop" /\ last'.h = h /\ st[h] = "init")
            => /\ last'.err = "none"
               /\ Lifecycle(h)' = "STOPPED"
               /\ (Lifecycle(h) = "STOPPED" => (native' = native /\ st' = st))]_vars

C4_Witness ==
    /\ OnLive("stop") /\ last.again /\ last.pre = "STOPPED"
    /\ last.err = "none" /\ Lifecycle(last.h) = "STOPPED"

\* The listener at place i of registry reg was unsubscribed by a listener that
\* ran before it in a publish that invoked the tokens of log.
RemovedBeforeTurn(reg, i, log) ==
    \E j \in 1..(i - 1) :
        /\ reg[j].act = "unsubNext"
        /\ reg[j].tok + 1 = reg[i].tok
        /\ Count(reg[j].tok, log) = 1

\* The engine's callback with identifier n on a handle armed with n published
\* one SignalEvent with payload n on that handle.
OneEvent(c, h) ==
    /\ c.arg = native[h].signum
    /\ Len(c.pubs) = 1
    /\ c.pubs[1].payload = c.arg
    /\ c.pubs[1].to = h

\* C5 as stated: the callback publishes one SignalEvent with payload n and every
\* listener subscribed when the callback is delivered receives it once.
C5_EveryListenerOnce ==
    [][last'.op = "callback"
         => /\ OneEvent(last', last'.h)
            /\ \A i \in 1..Len(listeners[last'.h]) :
                   Count(listeners[last'.h][i].tok, last'.pubs[1].log) = 1]_vars

\* C5, amended: the callback publishes one SignalEvent with payload n; every
\* listener subscribed when the callback is delivered receives it once, except
\* a listener that one invoked before it unsubscribed, which does not receive
\* it; nobody else receives it.
C5_OneEventToCurrentListeners ==
    [][last'.op = "callback"
         => /\ OneEvent(last', last'.h)
            /\ \A i \in 1..Len(last'.pubs[1].log) :
                   last'.pubs[1].log[i] \in Toks(listeners[last'.h])
            /\ \A i \in 1..Len(listeners[last'.h]) :
                   Count(listeners[last'.h][i].tok, last'.pubs[1].log) =
                       IF RemovedBeforeTurn(listeners[last'.h], i, last'.pubs[1].log)
                       THEN 0 ELSE 1]_vars

C5_Witness ==
    /\ last.op = "callback" /\ last.arg \in Signals
    /\ Len(last.pubs) = 1 /\ last.pubs[1].payload = last.arg
    /\ Len(last.pubs[1].log) = 2 /\ Len(listeners[last.h]) = 2

\* C6: close on an ACTIVE handle leaves it CLOSED, disarmed, with the native
\* resource released; a callback that arrives on the slot of a CLOSED handle
\* is ignored: no owner is dereferenced and no event is published.
C6_StaleCallbackIgnored ==
    /\ (last.op = "close" /\ last.pre = "ACTIVE")
         => /\ Lifecycle(last.h) = "CLOSED"
            /\ ~native[last.h].alloc /\ ~native[last.h].active
    /\ (last.op = "simulated" /\ last.pre = "CLOSED")
         => (~last.touched /\ last.pubs = <<>> /\ ~crashed)

\* C7: the back-pointers of two handles never coincide, each allocated slot
\* points back at its own handle, and a callback on the slot of one handle
\* publishes on that handle only and leaves the other handle as it was.
C7_NoSharedBackPointer ==
    [][/\ \A a \in Handles : native[a].alloc => native[a].data = a
       /\ \A a, b \in Handles :
            (a # b /\ native[a].alloc /\ native[b].alloc)
                => native[a].data # native[b].data
       /\ last'.op = "callback"
            => /\ Len(last'.pubs) = 1
               /\ last'.pubs[1].to = last'.h
               /\ last'.pubs[1].log = TokSeq(listeners[last'.h])
               /\ \A b \in Handles \ {last'.h} :
                    native'[b] = native[b] /\ listeners'[b] = listeners[b]]_vars

C7_Witness ==
    /\ last.op = "callback" /\ last.h = "B"
    /\ Lifecycle("A") = "ACTIVE" /\ native["A"].signum = last.arg
    /\ listeners["A"] # <<>>
    /\ Len(last.pubs) = 1 /\ last.pubs[1].to = "B" /\ last.pubs[1].log = <<1>>

\* The place of token t in registry reg.
Pos(reg, t) == CHOOSE i \in 1..Len(reg) : reg[i].tok = t

\* C8: one publish invokes listeners in subscription order, none twice, all
\* within the callback's step; with L1, L2, L3 subscribed and none of them
\* unsubscribing the one after it, it invokes exactly L1, L2, L3.
C8_SubscriptionOrder ==
    [][last'.op = "callback"
         => LET reg == listeners[last'.h]
                log == IF Len(last'.pubs) = 1 THEN last'.pubs[1].log ELSE <<0>>
            IN  /\ \A i \in 1..Len(log) : log[i] \in Toks(reg)
                /\ \A i, j \in 1..Len(log) :
                     i < j => Pos(reg, log[i]) < Pos(reg, log[j])
                /\ (\A i \in 1..Len(reg) : reg[i].act # "unsubNext")
                     => log = TokSeq(reg)]_vars

C8_Witness ==
    /\ last.op = "callback"
    /\ Len(last.pubs) = 1 /\ last.pubs[1].log = <<1, 2, 3>>

\* C9: when L1 unsubscribes L2 while it runs in a publish, L2 is not invoked
\* in that publish and is no longer subscribed after it (so no later publish
\* invokes it: only subscribed listeners are invoked); L3, like every listener
\* that stays subscribed, is invoked exactly once.
C9_UnsubscribeDuringPublish ==
    [][last'.op = "callback"
         => LET reg == listeners[last'.h]
                log == IF Len(last'.pubs) = 1 THEN last'.pubs[1].log ELSE <<0>>
            IN  /\ \A i \in 1..Len(log) : log[i] \in Toks(reg)
                /\ \A i \in 1..Len(reg) :
                     (reg[i].act = "unsubNext" /\ Count(reg[i].tok, log) > 0)
                        => /\ Count(reg[i].tok + 1, log) = 0
                           /\ reg[i].tok + 1 \notin Toks(listeners'[last'.h])
                /\ \A i \in 1..Len(reg) :
                     reg[i].tok \in Toks(listeners'[last'.h])
                        => Count(reg[i].tok, log) = 1]_vars

C9_Witness ==
    /\ last.op = "callback"
    /\ Len(last.pubs) = 1 /\ last.pubs[1].log = <<1, 3>>
    /\ TokSeq(listeners[last.h]) = <<1, 3>>
    /\ listeners[last.h][1].act = "unsubNext"

\* C10 as stated: signal() keeps the last value passed to start while the
\* handle is STOPPED.
C10_SignalSurvivesStop ==
    (OnLive("stop") /\ last.pre = "ACTIVE")
        => signal(native[last.h]) = last.presig

\* C10, amended: signal() is the identifier the watcher is armed for.  A
\* successful start(s) makes it s and it stays s while the handle is ACTIVE;
\* stop resets it, so signal() is 0 while the handle is STOPPED, until the next
\* start.
C10_SignalIsArmedIdentifier ==
    [][\A h \in Handles :
         /\ Lifecycle(h)' = "STOPPED" => signal(native'[h]) = 0
         /\ Lifecycle(h)' = "ACTIVE"
              => IF last'.op = "start" /\ last'.h = h /\ last'.err = "none"
                 THEN signal(native'[h]) = last'.arg
                 ELSE signal(native'[h]) = signal(native[h])]_vars

C10_Witness ==
    /\ OnLive("stop") /\ last.pre = "ACTIVE" /\ last.presig \in Signals
    /\ Lifecycle(last.h) = "STOPPED" /\ signal(native[last.h]) = 0


\* C11: a native call of init, start or stop that fails is reported by that
\* operation as a native error carrying the native status, and init then
\* returns false: no operation returns as if it had succeeded.
C11_NativeFailureReported ==
    (last.op \in {"init", "start", "stop"} /\ last.status # 0)
        => /\ last.err = "native"
           /\ last.code = last.status
           /\ (last.op = "init" => last.ret = 0)

C11_Witness ==
    /\ last.op = "start" /\ last.pre = "ACTIVE" /\ last.arg = BadSig
    /\ last.status # 0 /\ last.err = "native" /\ last.code = last.status

\* C12: an init, start or stop that reports an error leaves the native
\* resource (allocation, back-pointer, armed identifier) and the lifecycle
\* state of every handle as they were before the call.
C12_FailureLeavesState ==
    [][(last'.op \in {"init", "start", "stop"} /\ last'.err # "none" /\ ~last'.touched)
         => (native' = native /\ st' = st)]_vars

\* A listener of registry reg that calls stop ran in the publish recorded in pubs.
StopRan(reg, pubs) ==
    \E i \in 1..Len(reg) :
        /\ reg[i].act = "stop"
        /\ Len(pubs) >= 1
        /\ Count(reg[i].tok, pubs[1].log) > 0

\* C13: when a listener calls stop on the publishing handle, the callback
\* publishes the event once, invokes no listener twice, and ends with the
\* handle STOPPED and watching nothing; a callback is delivered only to an
\* ACTIVE handle, so none follows until the handle is started again.
C13_StopInsideListener ==
    [][\A h \in Handles :
         (last'.op = "callback" /\ last'.h = h)
            => /\ Lifecycle(h) = "ACTIVE"
               /\ StopRan(listeners[h], last'.pubs)
                    => /\ Len(last'.pubs) = 1
                       /\ \A i \in 1..Len(listeners[h]) :
                            Count(listeners[h][i].tok, last'.pubs[1].log) <= 1
                       /\ Lifecycle(h)' = "STOPPED"
                       /\ signal(native'[h]) = 0]_vars

C13_Witness ==
    /\ last.op = "callback" /\ last.pre = "ACTIVE"
    /\ Lifecycle(last.h) = "STOPPED"
    /\ Len(last.pubs) = 1 /\ Len(last.pubs[1].log) = 3
    /\ listeners[last.h][1].act = "stop"

\* C14: in every state the native resource of a handle is allocated exactly
\* when the handle is initialised and not closed (INITIALIZED, ACTIVE or
\* STOPPED); an allocated resource points back at its owner, and a slot
\* without resource holds no back-pointer and no armed watch.
C14_AllocatedIffLive ==
    \A h \in Handles :
        /\ native[h].alloc <=> Lifecycle(h) \in {"STOPPED", "ACTIVE"}
        /\ native[h].alloc => native[h].data = h
        /\ ~native[h].alloc => (native[h].data = NULL /\ ~native[h].active)

C14_Witness ==
    /\ last.op = "close" /\ last.pre = "ACTIVE"
    /\ ~native[last.h].alloc /\ native[last.h].data = NULL
    /\ Lifecycle(last.h) = "CLOSED"

\* C15: the lifecycle state of a handle changes only along the state machine:
\* create to UNINITIALIZED, init to INITIALIZED, a start from INITIALIZED or
\* STOPPED to ACTIVE armed for its argument, a stop (called by the application
\* or by a listener) from ACTIVE to STOPPED with the resource still allocated,
\* a close to CLOSED.
C15_OnlyStateMachineTransitions ==
    [][\A h \in Handles :
         Lifecycle(h)' # Lifecycle(h)
            => \/ /\ Lifecycle(h) = "NONE" /\ Lifecycle(h)' = "UNINITIALIZED"
                  /\ last'.op = "create"
               \/ /\ Lifecycle(h) = "UNINITIALIZED" /\ Lifecycle(h)' = "STOPPED"
                  /\ last'.op = "init"
               \/ /\ Lifecycle(h) = "STOPPED" /\ Lifecycle(h)' = "ACTIVE"
                  /\ last'.op = "start" /\ signal(native'[h]) = last'.arg
                  /\ native'[h].alloc
               \/ /\ Lifecycle(h) = "ACTIVE" /\ Lifecycle(h)' = "STOPPED"
                  /\ \/ last'.op = "stop"
                     \/ last'.op = "callback" /\ StopRan(listeners[h], last'.pubs)
                  /\ native'[h].alloc /\ native'[h].data = native[h].data
               \/ /\ Lifecycle(h)' = "CLOSED" /\ last'.op = "close"]_vars

\* C16: a listener that raises during a publish does not keep the listeners
\* subscribed after it from running in that publish, changes neither the set
\* nor the order of the registered listeners, and its failure is reported.
C16_ListenerFailureIsolated ==
    [][\A h \in Handles :
         (last'.op = "callback" /\ last'.h = h)
            => LET reg == listeners[h]
                   log == IF Len(last'.pubs) = 1 THEN last'.pubs[1].log ELSE <<0>>
                   rep == IF Len(last'.pubs) = 1 THEN last'.pubs[1].reported ELSE <<0>>
               IN  /\ \A i, j \in 1..Len(reg) :
                        (/\ i < j /\ reg[i].act = "throw"
                         /\ Count(reg[i].tok, log) = 1
                         /\ ~RemovedBeforeTurn(reg, j, log))
                            => Count(reg[j].tok, log) = 1
                   /\ \A i \in 1..Len(reg) :
                        (reg[i].act = "throw" /\ Count(reg[i].tok, log) = 1)
                            => Count(reg[i].tok, rep) = 1
                   /\ (\A i \in 1..Len(reg) : reg[i].act \in {"nop", "throw", "stop"})
                        => listeners'[h] = reg]_vars

C16_Witness ==
    /\ last.op = "callback"
    /\ Len(last.pubs) = 1
    /\ last.pubs[1].log = <<1, 2, 3>> /\ last.pubs[1].reported = <<1>>
    /\ TokSeq(listeners[last.h]) = <<1, 2, 3>>

C19_PersistentWatch ==
    [][\A h \in Handles :
         (last'.op = "callback" /\ last'.h = h)
            => /\ Len(last'.pubs) = 1
               /\ last'.pubs[1].payload = signal(native[h])
               /\ ~StopRan(listeners[h], last'.pubs)
                    => /\ Lifecycle(h)' = "ACTIVE"
                       /\ signal(native'[h]) = signal(native[h])]_vars

C19_Witness ==
    /\ last.op = "callback" /\ last.again
    /\ Lifecycle(last.h) = "ACTIVE"
    /\ Len(last.pubs) = 1 /\ last.pubs[1].log # <<>>

\* C20: the payload of every published SignalEvent is the identifier the
\* bridge was called with; the engine calls it on an ACTIVE handle with the
\* identifier signal() returns at that moment, so after start(s1); start(s2)
\* the payload is s2.
C20_PayloadIsRawIdentifier ==
    /\ last.op \in {"callback", "simulated"}
         => \A i \in 1..Len(last.pubs) : last.pubs[i].payload = last.arg
    /\ last.op = "callback"
         => /\ last.pre = "ACTIVE"
            /\ last.arg = last.presig
            /\ last.arg \in Signals
            /\ Len(last.pubs) = 1

C20_Witness ==
    /\ last.op = "simulated" /\ last.pre = "ACTIVE"
    /\ last.arg # last.presig
    /\ Len(last.pubs) = 1 /\ last.pubs[1].payload = last.arg
    /\ last.pubs[1].log # <<>>

====
